---- MODULE Spec2Model ----
(***************************************************************************)
(* Model of libbpf-rs/src/btf/types.rs: the concrete views over BTF type   *)
(* records.  A record lives in the store's buffer as a header followed by  *)
(* trailing 32-bit words.  A generic view (BtfType) is converted with      *)
(* try_from into one of the 20 concrete views, whose accessors decode the  *)
(* header and the trailing words.                                          *)
(*                                                                         *)
(* A u32 is a tuple of 4 bytes, most significant first; a u64 is a tuple   *)
(* of 8 bytes.  All bit operations work on the bits of these bytes, so a   *)
(* word keeps its full width whatever its value.                           *)
(***************************************************************************)
EXTENDS Integers, Sequences, FiniteSets, TLC

VARIABLES mem, orig, view, last, iters, ret, retry

vars == <<mem, orig, view, last, iters, ret, retry>>

\* ------------------------------------------------------------------ bounds
MaxVlen == 2

MaxIters == 2

\* ------------------------------------------------------- fixed-width words
RECURSIVE BitAnd(_, _)
BitAnd(a, b) ==
    IF a = 0 \/ b = 0 THEN 0
    ELSE (a % 2) * (b % 2) + 2 * BitAnd(a \div 2, b \div 2)

RECURSIVE BitOr(_, _)
BitOr(a, b) ==
    IF a = 0 THEN b
    ELSE IF b = 0 THEN a
    ELSE (IF (a % 2) + (b % 2) > 0 THEN 1 ELSE 0) + 2 * BitOr(a \div 2, b \div 2)

Pow2(n) == CASE n = 0 -> 1 [] n = 1 -> 2 [] n = 2 -> 4 [] n = 3 -> 8
             [] n = 4 -> 16 [] n = 5 -> 32 [] n = 6 -> 64 [] n = 7 -> 128

\* bit i (1 = most significant) of a byte tuple
BitAt(x, i) == (x[((i - 1) \div 8) + 1] \div Pow2(7 - ((i - 1) % 8))) % 2

\* the byte tuple of the same width whose bit i is f[i]
FromBits(f, nbytes) ==
    [j \in 1..nbytes |->
        f[8*j - 7] * 128 + f[8*j - 6] * 64 + f[8*j - 5] * 32 + f[8*j - 4] * 16
      + f[8*j - 3] * 8 + f[8*j - 2] * 4 + f[8*j - 1] * 2 + f[8*j]]

\* x & m on words of equal width
WAnd(x, m) == [i \in 1..Len(x) |-> BitAnd(x[i], m[i])]

\* x | y on words of equal width
WOr(x, y) == [i \in 1..Len(x) |-> BitOr(x[i], y[i])]

\* x >> n, logical, width kept
WShr(x, n) ==
    FromBits([i \in 1..(8 * Len(x)) |-> IF i - n >= 1 THEN BitAt(x, i - n) ELSE 0],
             Len(x))

\* x << n, bits shifted out at the top are lost, width kept
WShl(x, n) ==
    FromBits([i \in 1..(8 * Len(x)) |->
                 IF i + n <= 8 * Len(x) THEN BitAt(x, i + n) ELSE 0],
             Len(x))

\* `as u8`: the low byte, as a number
AsU8(x) == x[Len(x)]

\* u32 -> u64 (`.into()`, `as usize`): zero extension
ZeroExt64(x) == <<0, 0, 0, 0>> \o x

\* the u32 holding a natural below 2^31
U32(n) == <<n \div 16777216, (n \div 65536) % 256, (n \div 256) % 256, n % 256>>

\* the value of a u32 known to be below 2^31 (`vlen as usize`)
AsUsize(x) == x[1] * 16777216 + x[2] * 65536 + x[3] * 256 + x[4]

\* the value of a word read as a signed 32-bit integer (two's complement)
I32Val(x) ==
    (IF x[1] >= 128 THEN x[1] - 256 ELSE x[1]) * 16777216
        + x[2] * 65536 + x[3] * 256 + x[4]

None == [some |-> FALSE]

Some(v) == [some |-> TRUE, val |-> v]

\* ------------------------------------------------------------ the 20 kinds
FieldlessKinds ==
    {"Void", "Ptr", "Fwd", "Typedef", "Volatile", "Const", "Restrict", "Func",
     "Float", "TypeTag"}

PtrKinds == {"Array", "Var", "DeclTag"}

CollectionKinds == {"Struct", "Union", "Enum", "FuncProto", "DataSec", "Enum64"}

BtfKind == FieldlessKinds \cup PtrKinds \cup {"Int"} \cup CollectionKinds

\* words of one trailing member record of a collection kind
MemberWords(K) ==
    CASE K = "Struct" -> 3     \* btf_member { name_off, type_, offset }
      [] K = "Union" -> 3      \* btf_member { name_off, type_, offset }
      [] K = "Enum" -> 2       \* btf_enum { name_off, val }
      [] K = "FuncProto" -> 2  \* btf_param { name_off, type_ }
      [] K = "DataSec" -> 3    \* btf_var_secinfo { type_, offset, size }
      [] K = "Enum64" -> 3     \* btf_enum64 { name_off, val_lo32, val_hi32 }

\* ------------------------------------------------- the store's primitives
\* A generic view t is [type_id, ty, source]: ty is the address of the record
\* in the store's buffer mem, a function from addresses to records
\* [hdr |-> [name_off, vlen, kind, kind_flag, size], trail |-> <<words>>].
kind(t) == mem[t.ty].hdr.kind

kind_flag(t) == mem[t.ty].hdr.kind_flag

vlen(t) == U32(mem[t.ty].hdr.vlen)

\* offsets of the string table that hold a name
StrOffs == {U32(5), U32(6), U32(7)}

name_at(off) == IF off \in StrOffs THEN Some(off) ELSE None

\* the word at index i (0-based) of the memory following the header of t
TrailWord(t, i) == mem[t.ty].trail[i + 1]

TypeId(w) == [id |-> w]

\* ------------------------------------------------------ attribute decoders
normal(offset) == [tag |-> "Normal", offset |-> offset]

\* variant: the low 24 bits are not masked out of the offset
bif_field_unmasked(offset) ==
    [tag |-> "BitField", size |-> AsU8(WShr(offset, 24)), offset |-> offset]

bif_field(offset) ==
    [tag |-> "BitField",
     size |-> AsU8(WShr(offset, 24)),
     offset |-> WAnd(offset, <<0, 255, 255, 255>>)]

\* the derived TryFrom<u32> of Linkage: discriminants 0..3
LinkageTryFrom(c) ==
    CASE c = U32(0) -> Some("Static")
      [] c = U32(1) -> Some("Global")
      [] c = U32(2) -> Some("Extern")
      [] c = U32(3) -> Some("Unknown")
      [] OTHER -> None

UnwrapOr(o, d) == IF o.some THEN o.val ELSE d

\* i32 -> u32 try_into: fails on negative values
\* variant: a plain `as u32` cast, which never fails
TryIntoU32_cast(x) == Some(x)

TryIntoU32(x) == IF BitAt(x, 1) = 1 THEN None ELSE Some(x)

\* variant: the flag bits tested one after the other, Signed first
IntEncodingOf_priority(int) ==
    LET n == AsU8(WShr(WAnd(int, <<15, 0, 0, 0>>), 24)) IN
    IF n % 2 = 1 THEN "Signed"
    ELSE IF (n \div 2) % 2 = 1 THEN "Char"
    ELSE IF (n \div 4) % 2 = 1 THEN "Bool"
    ELSE "None"

IntEncodingOf(int) ==
    LET n == WShr(WAnd(int, <<15, 0, 0, 0>>), 24) IN
    CASE n = U32(1) -> "Signed"
      [] n = U32(2) -> "Char"
      [] n = U32(4) -> "Bool"
      [] OTHER -> "None"

IntOffsetOf(int) == AsU8(WShr(WAnd(int, <<0, 255, 0, 0>>), 24))

IntBitsOf(int) == AsU8(WAnd(int, <<0, 0, 0, 255>>))

\* ----------------------------------------------------------- conversions
Ok(v) == [ok |-> TRUE, val |-> v]

Err(t) == [ok |-> FALSE, val |-> t]

fieldless_try_from(K, t) ==
    IF kind(t) = K THEN Ok([name |-> K, source |-> t]) ELSE Err(t)

\* variant: the kind tag is not tested
concrete_try_from_unchecked(K, t) == Ok([name |-> K, source |-> t, ptr |-> 0])

concrete_try_from(K, t) ==
    IF kind(t) = K THEN Ok([name |-> K, source |-> t, ptr |-> 0]) ELSE Err(t)

collection_try_from(K, t) ==
    IF kind(t) = K
    THEN Ok([name |-> K, source |-> t,
             members |-> [base |-> 0, len |-> AsUsize(vlen(t))]])
    ELSE Err(t)

Int_try_from(t) ==
    IF kind(t) = "Int"
    THEN LET int == TrailWord(t, 0) IN
         Ok([name |-> "Int", source |-> t,
             encoding |-> IntEncodingOf(int),
             offset |-> IntOffsetOf(int),
             bits |-> IntBitsOf(int)])
    ELSE Err(t)

\* variant: the Union view tests for the Struct kind tag
try_from_wrong_tag(K, t) ==
    CASE K = "Union" -> collection_try_from("Struct", t)
      [] K \in FieldlessKinds -> fieldless_try_from(K, t)
      [] K \in PtrKinds -> concrete_try_from(K, t)
      [] K \in CollectionKinds -> collection_try_from(K, t)
      [] K = "Int" -> Int_try_from(t)

try_from(K, t) ==
    CASE K \in FieldlessKinds -> fieldless_try_from(K, t)
      [] K \in PtrKinds -> concrete_try_from(K, t)
      [] K \in CollectionKinds -> collection_try_from(K, t)
      [] K = "Int" -> Int_try_from(t)

deref(v) == v.source

\* ------------------------------------------------- accessors of the views
\* variant: the two branches swapped
Fwd_kind_swapped(v) == IF kind_flag(v.source) THEN "Struct" ELSE "Union"

Fwd_kind(v) == IF kind_flag(v.source) THEN "Union" ELSE "Struct"

Func_linkage(v) == UnwrapOr(LinkageTryFrom(vlen(v.source)), "Unknown")

\* variant: the linkage of a Var read from the header count, as Func does
Var_linkage_vlen(v) == UnwrapOr(LinkageTryFrom(vlen(v.source)), "Unknown")

Var_linkage(v) == UnwrapOr(LinkageTryFrom(TrailWord(v.source, v.ptr)), "Unknown")

component_index(v) == TryIntoU32(TrailWord(v.source, v.ptr))

\* ---------------------------------------------------- collection members
\* element i of the members slice: the words of the i-th trailing record
SliceGet(v, index) ==
    IF index < v.members.len
    THEN LET sz == MemberWords(v.name) IN
         Some([j \in 1..sz |-> TrailWord(v.source, v.members.base + index * sz + j - 1)])
    ELSE None

StructMember(v, member) ==
    [name |-> name_at(member[1]),
     ty |-> TypeId(member[2]),
     attr |-> IF kind_flag(v.source) THEN bif_field(member[3]) ELSE normal(member[3])]

EnumMember(v, member) == [name |-> name_at(member[1]), value |-> member[2]]

FuncProtoParam(v, member) == [name |-> name_at(member[1]), ty |-> TypeId(member[2])]

VarSecInfo(v, member) ==
    [ty |-> TypeId(member[1]), offset |-> member[2], size |-> ZeroExt64(member[3])]

\* variant: the high half shifted while still 32 bits wide
Enum64Value_narrow(val_lo32, val_hi32) ==
    WOr(ZeroExt64(WShl(val_hi32, 32)), ZeroExt64(val_lo32))

Enum64Value(val_lo32, val_hi32) ==
    LET hi == ZeroExt64(val_hi32)
        lo == ZeroExt64(val_lo32)
    IN  WOr(WShl(hi, 32), lo)

Enum64Member(v, member) ==
    [name |-> name_at(member[1]), value |-> Enum64Value(member[2], member[3])]

c_to_rust_member(v, member) ==
    CASE v.name \in {"Struct", "Union"} -> StructMember(v, member)
      [] v.name = "Enum" -> EnumMember(v, member)
      [] v.name = "FuncProto" -> FuncProtoParam(v, member)
      [] v.name = "DataSec" -> VarSecInfo(v, member)
      [] v.name = "Enum64" -> Enum64Member(v, member)

is_empty(v) == v.members.len = 0

len(v) == v.members.len

\* variant: the index taken as 1-based
get_one_based(v, index) ==
    LET m == SliceGet(v, index + 1) IN
    IF m.some THEN Some(c_to_rust_member(v, m.val)) ELSE None

get(v, index) ==
    LET m == SliceGet(v, index) IN
    IF m.some THEN Some(c_to_rust_member(v, m.val)) ELSE None

\* a fresh sequence over the members slice: a cursor and the slice's end
iter(v) == [pos |-> 0, end |-> v.members.len]

\* one step of a sequence: the item, if any, and the advanced sequence
\* variant: the sequence consumed from its back
iter_next_back(v, it) ==
    IF it.pos < it.end
    THEN [item |-> Some(c_to_rust_member(v, SliceGet(v, it.end - 1).val)),
          it |-> [it EXCEPT !.end = it.end - 1]]
    ELSE [item |-> None, it |-> it]

iter_next(v, it) ==
    IF it.pos < it.end
    THEN [item |-> Some(c_to_rust_member(v, SliceGet(v, it.pos).val)),
          it |-> [it EXCEPT !.pos = it.pos + 1]]
    ELSE [item |-> None, it |-> it]

\* ------------------------------------------------ well-formed records
Hdr(K, flag, n, name_off, size) ==
    [name_off |-> name_off, vlen |-> n, kind |-> K, kind_flag |-> flag, size |-> size]

\* header counts that also serve as linkage codes of Func
VlenCodes == {0, 1, 2, 3, 4, 256, 65535}

FieldlessRecords ==
    {[hdr |-> Hdr(K, f, n, no, sz), trail |-> <<>>] :
        K \in FieldlessKinds, f \in BOOLEAN, n \in VlenCodes,
        no \in {0, 5}, sz \in {0, 4}}

\* trailing words of Int: every flag nibble, with and without the unused
\* bits 28..31, several offset bytes and several widths
IntWords ==
    {<<hi * 16 + nib, off, mid, bits>> :
        hi \in {0, 10}, nib \in 0..15, off \in {0, 1, 32, 255},
        mid \in {0, 85}, bits \in {0, 8, 32, 255}}

IntRecords == {[hdr |-> Hdr("Int", FALSE, 0, 5, 4), trail |-> <<w>>] : w \in IntWords}

LinkageWords ==
    {U32(0), U32(1), U32(2), U32(3), U32(4), U32(256), U32(65536),
     <<1, 0, 0, 0>>, <<255, 255, 255, 255>>}

VarRecords ==
    {[hdr |-> Hdr("Var", FALSE, n, 5, 2), trail |-> <<w>>] :
        n \in {0, 1, 2, 3}, w \in LinkageWords}

ComponentWords ==
    {U32(0), U32(1), U32(2), U32(256), <<127, 255, 255, 255>>, <<128, 0, 0, 0>>,
     <<128, 0, 0, 1>>, <<255, 255, 255, 254>>, <<255, 255, 255, 255>>}

DeclTagRecords ==
    {[hdr |-> Hdr("DeclTag", f, 0, 5, 2), trail |-> <<w>>] :
        f \in BOOLEAN, w \in ComponentWords}

ArrayRecords ==
    {[hdr |-> Hdr("Array", FALSE, 0, 0, 0), trail |-> <<U32(2), U32(3), n>>] :
        n \in {U32(0), U32(16), <<255, 255, 255, 255>>}}

\* the member records a collection of kind K is built from, as a list
MemberList(K) ==
    CASE K \in {"Struct", "Union"} ->
            << <<U32(5), U32(2), <<8, 0, 0, 16>> >>, <<U32(0), U32(3), <<0, 0, 0, 16>> >>,
               <<U32(6), U32(2), <<255, 0, 0, 1>> >>, <<U32(9), U32(4), <<128, 255, 255, 255>> >> >>
      [] K = "Enum" ->
            << <<U32(5), U32(0)>>, <<U32(6), <<255, 255, 255, 255>> >>, <<U32(0), U32(7)>> >>
      [] K = "FuncProto" ->
            << <<U32(5), U32(2)>>, <<U32(0), U32(3)>>, <<U32(7), U32(0)>> >>
      [] K = "DataSec" ->
            << <<U32(2), U32(0), U32(4)>>, <<U32(3), U32(8), <<255, 255, 255, 255>> >>,
               <<U32(4), <<128, 0, 0, 0>>, U32(1)>> >>
      [] K = "Enum64" ->
            << <<U32(5), U32(0), U32(0)>>, <<U32(6), <<255, 255, 255, 255>>, U32(1)>>,
               <<U32(7), U32(1), <<255, 255, 255, 255>> >>, <<U32(0), <<128, 0, 0, 0>>, U32(0)>>,
               <<U32(5), U32(0), <<128, 0, 0, 0>> >>, <<U32(6), U32(1), U32(0)>> >>

MemberChoices(K) == {MemberList(K)[i] : i \in 1..Len(MemberList(K))}

\* the words of a run of member records laid out one after the other
RECURSIVE Flatten(_)
Flatten(ms) == IF ms = <<>> THEN <<>> ELSE Head(ms) \o Flatten(Tail(ms))

\* every run of n member records
MemberRuns(K, n) == [1..n -> MemberChoices(K)]

\* the runs of n member records that follow the list from its first or its
\* second place, going round at its end
ListRuns(K, n) ==
    LET l == MemberList(K) IN
    {[i \in 1..n |-> l[((s + i - 2) % Len(l)) + 1]] : s \in {1, 2}}

KindFlags(K) == IF K \in {"Struct", "Union"} THEN BOOLEAN ELSE {FALSE}

CollectionRecords ==
    UNION {{[hdr |-> Hdr(K, f, n, 5, 8), trail |-> Flatten(ms)] :
                ms \in MemberRuns(K, n), f \in KindFlags(K)} :
           K \in CollectionKinds, n \in 0..MaxVlen}

\* the collection records the member sequences are run over
SeqRecords ==
    UNION {{[hdr |-> Hdr(K, f, n, 5, 8), trail |-> Flatten(ms)] :
                ms \in ListRuns(K, n), f \in KindFlags(K)} :
           K \in CollectionKinds, n \in 0..MaxVlen}

Records ==
    FieldlessRecords \cup IntRecords \cup VarRecords \cup DeclTagRecords
        \cup ArrayRecords \cup CollectionRecords

VoidRecord == [hdr |-> Hdr("Void", FALSE, 0, 0, 0), trail |-> <<>>]

\* indexes handed to get(): in range, one past the end, and far beyond
Indexes == 0..(MaxVlen + 1) \cup {2147483646}

\* --------------------------------------------------------- state machine
\* mem    the store's buffer: record 0 is void, record 1 the record viewed
\* orig   the generic view the caller was given
\* view   what the caller holds: the generic view, or a concrete view
\* last   the target and outcome of the last conversion
\* iters  the member sequences the caller holds, one per slot; iter() puts a
\*        new sequence into a slot, dropping the one that was there
\* ret    the last accessor call and its result
\* retry  a caller trying the target kinds in turn: the order it follows,
\*        how many it has tried and how many of them succeeded
SeqIds == 1..MaxIters

NoSeq == [live |-> FALSE, it |-> [pos |-> 0, end |-> 0], out |-> <<>>, done |-> FALSE]

NoRetry == [plan |-> <<>>, n |-> 0, oks |-> 0]

InitOn(rs) ==
    /\ \E r \in rs : mem = [a \in {0, 1} |-> IF a = 0 THEN VoidRecord ELSE r]
    /\ orig = [type_id |-> 1, ty |-> 1, source |-> "btf"]
    /\ view = [tag |-> "BtfType", val |-> orig]
    /\ last = [target |-> "none", ok |-> FALSE]
    /\ iters = [id \in SeqIds |-> NoSeq]
    /\ ret = [op |-> "none", arg |-> 0, val |-> 0]
    /\ retry = NoRetry

Init == InitOn(Records)

InitSeq == InitOn(SeqRecords)

Holds(Ks) == view.tag = "Concrete" /\ view.val.name \in Ks

TryFrom(K) ==
    /\ view.tag = "BtfType"
    /\ LET r == try_from(K, view.val) IN
        /\ view' = [tag |-> IF r.ok THEN "Concrete" ELSE "BtfType", val |-> r.val]
        /\ last' = [target |-> K, ok |-> r.ok]
    /\ UNCHANGED <<mem, orig, iters, ret, retry>>

Returns(op, arg, val) ==
    /\ ret' = [op |-> op, arg |-> arg, val |-> val]
    /\ UNCHANGED <<mem, orig, view, last, iters, retry>>

CallFwdKind == Holds({"Fwd"}) /\ Returns("Fwd::kind", 0, Fwd_kind(view.val))

CallFuncLinkage == Holds({"Func"}) /\ Returns("Func::linkage", 0, Func_linkage(view.val))

CallVarLinkage == Holds({"Var"}) /\ Returns("Var::linkage", 0, Var_linkage(view.val))

CallComponentIndex ==
    Holds({"DeclTag"}) /\ Returns("component_index", 0, component_index(view.val))

CallIsEmpty == Holds(CollectionKinds) /\ Returns("is_empty", 0, is_empty(view.val))

CallLen == Holds(CollectionKinds) /\ Returns("len", 0, len(view.val))

CallGet(index) == Holds(CollectionKinds) /\ Returns("get", index, get(view.val, index))

CallIter(id) ==
    /\ Holds(CollectionKinds)
    /\ iters' = [iters EXCEPT ![id] =
                    [live |-> TRUE, it |-> iter(view.val), out |-> <<>>, done |-> FALSE]]
    /\ UNCHANGED <<mem, orig, view, last, ret, retry>>

CallNext(id) ==
    /\ Holds(CollectionKinds)
    /\ iters[id].live
    /\ ~iters[id].done
    /\ LET r == iter_next(view.val, iters[id].it) IN
        iters' = [iters EXCEPT ![id] =
                    [live |-> TRUE,
                     it |-> r.it,
                     out |-> IF r.item.some THEN Append(@.out, r.item.val) ELSE @.out,
                     done |-> ~r.item.some]]
    /\ UNCHANGED <<mem, orig, view, last, ret, retry>>

\* conversions and accessor calls on a record of any kind
Next ==
    \/ \E K \in BtfKind : TryFrom(K)
    \/ CallFwdKind
    \/ CallFuncLinkage
    \/ CallVarLinkage
    \/ CallComponentIndex
    \/ CallIsEmpty
    \/ CallLen
    \/ \E index \in Indexes : CallGet(index)

Spec == Init /\ [][Next]_vars

\* conversions, accessor calls and member sequences on a collection record
NextSeq ==
    \/ \E K \in BtfKind : TryFrom(K)
    \/ CallIsEmpty
    \/ CallLen
    \/ \E index \in Indexes : CallGet(index)
    \/ \E id \in SeqIds : CallIter(id)
    \/ \E id \in SeqIds : CallNext(id)

SpecSeq == InitSeq /\ [][NextSeq]_vars

\* the 20 kinds in the order their views are declared
KindList ==
    <<"Void", "Int", "Ptr", "Array", "Struct", "Union", "Enum", "Fwd", "Typedef",
      "Volatile", "Const", "Restrict", "Func", "FuncProto", "Var", "DataSec",
      "Float", "DeclTag", "TypeTag", "Enum64">>

\* the steps by which an order walks round the list of kinds
Strides == {1, 3, 7, 19}

\* the orders a caller tries the kinds in: from any kind on, round the list
Orders ==
    LET n == Len(KindList) IN
    {[i \in 1..n |-> KindList[((s + (i - 1) * d) % n) + 1]] : s \in 0..(n - 1), d \in Strides}

\* one well-formed record of every kind
RetryRecords == {CHOOSE r \in Records : r.hdr.kind = K : K \in BtfKind}

InitRetry ==
    /\ \E r \in RetryRecords : mem = [a \in {0, 1} |-> IF a = 0 THEN VoidRecord ELSE r]
    /\ orig = [type_id |-> 1, ty |-> 1, source |-> "btf"]
    /\ view = [tag |-> "BtfType", val |-> orig]
    /\ last = [target |-> "none", ok |-> FALSE]
    /\ iters = [id \in SeqIds |-> NoSeq]
    /\ ret = [op |-> "none", arg |-> 0, val |-> 0]
    /\ \E o \in Orders : retry = [plan |-> o, n |-> 0, oks |-> 0]

\* the caller tries the next kind of its order on the generic view it holds:
\* the one it was given, or the one the last failed attempt handed back
RetryNext ==
    /\ view.tag = "BtfType"
    /\ retry.n < Len(retry.plan)
    /\ LET K == retry.plan[retry.n + 1]
           r == try_from(K, view.val)
       IN  /\ view' = [tag |-> IF r.ok THEN "Concrete" ELSE "BtfType", val |-> r.val]
           /\ last' = [target |-> K, ok |-> r.ok]
           /\ retry' = [retry EXCEPT !.n = @ + 1, !.oks = IF r.ok THEN @ + 1 ELSE @]
    /\ UNCHANGED <<mem, orig, iters, ret>>

SpecRetry == InitRetry /\ [][RetryNext]_vars

TypeOK ==
    /\ view.tag \in {"BtfType", "Concrete"}
    /\ last.target \in BtfKind \cup {"none"}
    /\ DOMAIN iters = SeqIds

\* ------------------------------------------------------------ properties
\* the record viewed, its header and the words that follow it
Rec == mem[1]

\* the raw words of member i (0-based) of the record viewed
RawMember(i) ==
    LET sz == MemberWords(Rec.hdr.kind) IN
    [j \in 1..sz |-> Rec.trail[i * sz + j]]

\* every item a sequence gives until it ends
RECURSIVE Drain(_, _)
Drain(v, it) ==
    LET r == iter_next(v, it) IN
    IF r.item.some THEN <<r.item.val>> \o Drain(v, r.it) ELSE <<>>

\* C1: try_from into the view of kind K' is Ok iff the record's kind tag is
\* K'; an Err carries the generic view it was given, unchanged, and an Ok
\* view dereferences to that generic view.
C1_TryFromIffKind ==
    /\ \A K \in BtfKind :
          LET r == try_from(K, orig) IN
          /\ r.ok <=> (Rec.hdr.kind = K)
          /\ ~r.ok => r.val = orig
          /\ r.ok => r.val.name = K /\ deref(r.val) = orig
    /\ last.target # "none" =>
          /\ last.ok <=> (Rec.hdr.kind = last.target)
          /\ ~last.ok => view = [tag |-> "BtfType", val |-> orig]
          /\ last.ok => /\ view.tag = "Concrete"
                        /\ view.val.name = last.target
                        /\ deref(view.val) = orig

C1_Witness ==
    /\ last.ok /\ last.target = "Union" /\ Rec.hdr.kind = "Union"
    /\ view.tag = "Concrete" /\ deref(view.val) = orig

\* C2: for a collection view over a record with header count vlen, len() is
\* vlen, is_empty() holds iff vlen = 0, iter() gives exactly vlen items, get(i)
\* for i < vlen is the i-th item of iter(), and get(i) for i >= vlen is None.
C2_CollectionAccess ==
    Holds(CollectionKinds) =>
        LET v == view.val
            n == Rec.hdr.vlen
            items == Drain(v, iter(v))
        IN  /\ len(v) = n
            /\ is_empty(v) <=> (n = 0)
            /\ Len(items) = n
            /\ \A i \in Indexes :
                  /\ i < n => get(v, i) = Some(items[i + 1])
                  /\ i >= n => get(v, i) = None
            /\ ret.op = "len" => ret.val = n
            /\ ret.op = "is_empty" => (ret.val <=> (n = 0))
            /\ ret.op = "get" =>
                  ret.val = IF ret.arg < n THEN Some(items[ret.arg + 1]) ELSE None
            /\ \A id \in SeqIds : iters[id].done => iters[id].out = items

C2_Witness ==
    /\ Holds(CollectionKinds) /\ Rec.hdr.vlen = 2
    /\ ret.op = "get" /\ ret.arg = 1 /\ ret.val.some
    /\ \E id \in SeqIds :
          iters[id].done /\ Len(iters[id].out) = 2 /\ iters[id].out[2] = ret.val.val

\* C3: a Struct or Union member with raw offset word w has the attribute
\* BitField{size = w >> 24, offset = w & 0x00ffffff} when the enclosing
\* record's kind_flag is set and Normal{offset = w} when it is clear, so all
\* members of one aggregate have the same variant.
C3_MemberAttr ==
    Holds({"Struct", "Union"}) =>
        LET v == view.val IN
        /\ \A i \in 0..(Rec.hdr.vlen - 1) :
              LET w == RawMember(i)[3]
                  a == get(v, i).val.attr
              IN  IF Rec.hdr.kind_flag
                  THEN a = [tag |-> "BitField", size |-> w[1],
                            offset |-> <<0, w[2], w[3], w[4]>>]
                  ELSE a = [tag |-> "Normal", offset |-> w]
        /\ \A i, j \in 0..(Rec.hdr.vlen - 1) :
              get(v, i).val.attr.tag = get(v, j).val.attr.tag

C3_Witness ==
    /\ Holds({"Struct", "Union"}) /\ Rec.hdr.kind_flag
    /\ ret.op = "get" /\ ret.arg < Rec.hdr.vlen
    /\ RawMember(ret.arg)[3] = <<8, 0, 0, 16>>
    /\ ret.val.val.attr = [tag |-> "BitField", size |-> 8, offset |-> U32(16)]

\* the flag bits of a nibble taken in the order Signed, Char, Bool
PriorityEncoding(nib) ==
    IF nib % 2 = 1 THEN "Signed"
    ELSE IF (nib \div 2) % 2 = 1 THEN "Char"
    ELSE IF (nib \div 4) % 2 = 1 THEN "Bool"
    ELSE "None"

\* C4 as stated: the encoding of an Int follows the flag nibble (bits 24-27)
\* in priority order Signed > Char > Bool > None for all 16 nibble values.
C4_PriorityOrder ==
    Holds({"Int"}) => view.val.encoding = PriorityEncoding(Rec.trail[1][1] % 16)

\* C4 amended: the encoding of an Int is Signed when the flag nibble is
\* exactly 1, Char when it is exactly 2, Bool when it is exactly 4 and None
\* for each of the other 13 nibble values.
C4_ExactNibble ==
    Holds({"Int"}) =>
        LET nib == Rec.trail[1][1] % 16 IN
        view.val.encoding =
            CASE nib = 1 -> "Signed" [] nib = 2 -> "Char" [] nib = 4 -> "Bool"
              [] OTHER -> "None"

C4_Witness ==
    Holds({"Int"}) /\ Rec.trail[1][1] % 16 = 3 /\ view.val.encoding = "None"

\* C5: the bits field of an Int is the low byte of its trailing word and the
\* offset field is the byte in bits 16-23 of that word.
C5_IntBitsOffset ==
    Holds({"Int"}) =>
        /\ view.val.bits = Rec.trail[1][4]
        /\ view.val.offset = Rec.trail[1][2]

\* C6: the value of an Enum64 member is the 64-bit number whose high half is
\* val_hi32 and whose low half is val_lo32, and members with distinct halves
\* have distinct values.
C6_Enum64Value ==
    Holds({"Enum64"}) =>
        LET v == view.val IN
        /\ \A i \in 0..(Rec.hdr.vlen - 1) :
              get(v, i).val.value = RawMember(i)[3] \o RawMember(i)[2]
        /\ \A i, j \in 0..(Rec.hdr.vlen - 1) :
              get(v, i).val.value = get(v, j).val.value =>
                  /\ RawMember(i)[2] = RawMember(j)[2]
                  /\ RawMember(i)[3] = RawMember(j)[3]

C6_Witness ==
    /\ Holds({"Enum64"}) /\ ret.op = "get" /\ ret.arg < Rec.hdr.vlen
    /\ RawMember(ret.arg)[3] = U32(1)
    /\ RawMember(ret.arg)[2] = <<255, 255, 255, 255>>
    /\ ret.val.val.value = <<0, 0, 0, 1, 255, 255, 255, 255>>

\* the linkage a 32-bit code stands for
LinkageOfCode(c) ==
    CASE c = <<0, 0, 0, 0>> -> "Static"
      [] c = <<0, 0, 0, 1>> -> "Global"
      [] c = <<0, 0, 0, 2>> -> "Extern"
      [] OTHER -> "Unknown"

\* C7: Func::linkage() decodes the header's vlen and Var::linkage() the Var's
\* trailing word, whatever vlen is: 0 is Static, 1 Global, 2 Extern and every
\* other code Unknown; neither ever fails.
C7_LinkageTotal ==
    /\ Holds({"Func"}) =>
          /\ Func_linkage(view.val) = LinkageOfCode(U32(Rec.hdr.vlen))
          /\ ret.op = "Func::linkage" => ret.val = LinkageOfCode(U32(Rec.hdr.vlen))
    /\ Holds({"Var"}) =>
          /\ Var_linkage(view.val) = LinkageOfCode(Rec.trail[1])
          /\ ret.op = "Var::linkage" => ret.val = LinkageOfCode(Rec.trail[1])

C7_Witness ==
    /\ Holds({"Var"}) /\ Rec.hdr.vlen = 1 /\ Rec.trail[1] = <<255, 255, 255, 255>>
    /\ ret.op = "Var::linkage" /\ ret.val = "Unknown"

\* C8: component_index() of a DeclTag whose trailing value read as a signed
\* 32-bit integer is v returns Some(v) when v >= 0 and None when v < 0.
C8_ComponentIndex ==
    Holds({"DeclTag"}) =>
        LET w == Rec.trail[1]
            r == component_index(view.val)
        IN  /\ I32Val(w) >= 0 => r = Some(w)
            /\ I32Val(w) < 0 => r = None
            /\ ret.op = "component_index" => ret.val = r

C8_Witness ==
    /\ Holds({"DeclTag"}) /\ I32Val(Rec.trail[1]) = -1
    /\ ret.op = "component_index" /\ ret.val = None

\* C9: kind() of a Fwd view is Union when the header's kind_flag is set and
\* Struct when it is clear, whatever vlen, name_offset and size_or_type are.
C9_FwdKind ==
    Holds({"Fwd"}) =>
        LET k == IF Rec.hdr.kind_flag THEN "Union" ELSE "Struct" IN
        /\ Fwd_kind(view.val) = k
        /\ ret.op = "Fwd::kind" => ret.val = k

C9_Witness ==
    /\ Holds({"Fwd"}) /\ Rec.hdr.kind_flag /\ Rec.hdr.vlen = 3 /\ Rec.hdr.size = 4
    /\ ret.op = "Fwd::kind" /\ ret.val = "Union"

\* every sequence has given the first members of the view, in index order,
\* and all of them once it has ended
SequencesInOrder ==
    Holds(CollectionKinds) =>
        \A id \in SeqIds :
            LET s == iters[id] IN
            s.live =>
                /\ Len(s.out) <= Rec.hdr.vlen
                /\ \A i \in 1..Len(s.out) : Some(s.out[i]) = get(view.val, i - 1)
                /\ s.done => Len(s.out) = Rec.hdr.vlen

\* a sequence as iter() makes it: at member 0, nothing given yet
Fresh(s) == s.live /\ s.it.pos = 0 /\ s.out = <<>> /\ ~s.done

\* a step leaves the record and a concrete view alone and changes at most one
\* sequence, which it either advances by at most one item or starts afresh
StepKeepsOthers ==
    /\ mem' = mem
    /\ view.tag = "Concrete" => view' = view
    /\ \A id \in SeqIds :
          iters'[id] # iters[id] =>
              /\ \A other \in SeqIds \ {id} : iters'[other] = iters[other]
              /\ \/ Fresh(iters'[id])
                 \/ /\ iters[id].live /\ iters'[id].live
                    /\ \/ iters'[id].out = iters[id].out
                       \/ \E x \in {get(view.val, Len(iters[id].out))} :
                             x.some /\ iters'[id].out = Append(iters[id].out, x.val)

\* C10: sequences over one view are restartable and independent: iter()
\* starts a fresh sequence at member 0, under any interleaving of steps and
\* get() calls each sequence gives the vlen members in index order, and the
\* view, its member slice and the record never change.
C10_IndependentSequences == [](SequencesInOrder) /\ [][StepKeepsOthers]_vars

C10_Witness ==
    /\ Holds(CollectionKinds) /\ Rec.hdr.vlen = 2
    /\ iters[1].live /\ iters[1].it.pos = 1 /\ Len(iters[1].out) = 1
    /\ iters[2].done /\ Len(iters[2].out) = 2
    /\ iters[2].out[1] = iters[1].out[1]
    /\ ret.op = "get" /\ ret.val.some

\* the kinds a retrying caller has tried so far
Tried == {retry.plan[i] : i \in 1..retry.n}

\* C11: a caller that tries the 20 target kinds one after another, in any
\* order, each time on the generic view the last failure handed back, gets
\* back a view equal to the original from every failed attempt, succeeds
\* exactly once, and the concrete view it ends with has the kind tag of the
\* record's header.
C11_RetryOneSuccess ==
    Len(retry.plan) > 0 =>
        /\ retry.oks <= 1
        /\ view.tag = "BtfType" =>
              /\ view.val = orig
              /\ retry.oks = 0
              /\ retry.n < Len(retry.plan)
              /\ \A K \in Tried : K # Rec.hdr.kind
        /\ view.tag = "Concrete" =>
              /\ retry.oks = 1
              /\ last.ok /\ last.target = retry.plan[retry.n]
              /\ view.val.name = Rec.hdr.kind
              /\ last.target = Rec.hdr.kind
              /\ deref(view.val) = orig
              /\ \A K \in BtfKind \ {last.target} : ~try_from(K, orig).ok

C11_Witness ==
    /\ retry.n = Len(retry.plan) /\ retry.n = Cardinality(BtfKind) /\ retry.oks = 1
    /\ view.tag = "Concrete" /\ view.val.name = "Enum64" /\ Rec.hdr.kind = "Enum64"
    /\ retry.plan[1] = "Void"

====
